---- MODULE Spec2Model ----
(***************************************************************************)
(* Model of the adaptive summarization engine (src/engine.py):            *)
(* summarize_text, try_single_pass, recursive_binary_map, summarize_chunk, *)
(* reduce_partials, split_in_two, ensure_schema and the usage arithmetic.  *)
(*                                                                         *)
(* Strings are sequences of one-character strings, so that strip() and     *)
(* lower() are computed.  The Python call stack of recursive_binary_map is *)
(* the sequence `stack`; the function currently looping over remote calls  *)
(* (try_single_pass, summarize_chunk or reduce_partials) is `cur`.         *)
(***************************************************************************)
EXTENDS Integers, Sequences, FiniteSets, TLC

VARIABLES
  mode,     \* the mode argument of summarize_text
  cfg,      \* the configuration: schema_keys and binary_overlap
  cleaned,  \* the text returned by clean_text
  pc,       \* where summarize_text stands: start, single, chunked, done,
            \* escaped (an exception left it)
  sp,       \* what try_single_pass returned: (s, status, u)
  stack,    \* the activations of recursive_binary_map, innermost last
  cur,      \* the running try_single_pass, summarize_chunk or reduce_partials
  ret,      \* what the outermost recursive_binary_map returned or raised
  result,   \* the triple summarize_text returned
  hist,     \* bookkeeping of the remote calls of the run
  arg,      \* input of split_in_two or of the local merge run on its own
  out       \* its output

vars == <<mode, cfg, cleaned, pc, sp, stack, cur, ret, result, hist, arg, out>>


(* ------------------------------ bounds --------------------------------- *)
MaxLen == 1          \* longest cleaned text of the orchestration runs
MaxOverlap == 0      \* largest cfg["binary_overlap"] of the orchestration runs
MaxSplits == 1       \* most spans split by recursive_binary_map per run
MaxFaults == 2       \* most remote calls failing with a non-size error per run
MaxSplitLen == 6     \* longest text handed to split_in_two on its own
MaxSplitOverlap == 6 \* largest overlap handed to split_in_two on its own
MaxParts == 3        \* longest partial list handed to the local merge on its own
MaxTermLen == 2      \* longest text of the termination runs
MaxTermOverlap == 0  \* largest cfg["binary_overlap"] of the termination runs
RecursionLimit == 3  \* most nested recursive_binary_map activations the interpreter allows
MaxCalls == 4        \* most remote calls of one process in the temperature runs

Max(a, b) == IF a >= b THEN a ELSE b
Min(a, b) == IF a <= b THEN a ELSE b

(* ------------------------------ strings -------------------------------- *)
Whitespace == {" "}

RECURSIVE lstrip(_)
lstrip(s) ==
  IF s # <<>> /\ Head(s) \in Whitespace THEN lstrip(Tail(s)) ELSE s

RECURSIVE rstrip(_)
rstrip(s) ==
  IF s # <<>> /\ s[Len(s)] \in Whitespace
    THEN rstrip(SubSeq(s, 1, Len(s) - 1)) ELSE s

strip(s) == rstrip(lstrip(s))

LowerChar(c) ==
  CASE c = "N" -> "n"
    [] c = "R" -> "r"
    [] c = "A" -> "a"
    [] c = "G" -> "g"
    [] c = "P" -> "p"
    [] c = "T" -> "t"
    [] OTHER -> c

lower(s) == [i \in 1..Len(s) |-> LowerChar(s[i])]

\* text[a:b] for non-negative a and b: Python clamps both to len(text)
Slice(s, a, b) == SubSeq(s, Min(a, Len(s)) + 1, Min(b, Len(s)))

\* all strings over alphabet A of length at most n
RECURSIVE StringsUpTo(_, _)
StringsUpTo(A, n) ==
  IF n = 0 THEN {<<>>}
  ELSE LET shorter == StringsUpTo(A, n - 1)
       IN shorter \cup {Append(s, c) : s \in shorter, c \in A}

(* --------------------------- split_in_two ------------------------------ *)
\* the slice bounds of the two halves, before trimming:
\* text[:max(0, mid + overlap//2)] and text[max(0, mid - overlap//2):]
split_ranges_shift(n, overlap) ==
  LET mid == n \div 2
  IN << <<0, Min(n, Max(0, mid + overlap \div 2))>>,
        <<Min(n, Max(0, mid - overlap)), n>> >>

split_ranges(n, overlap) ==
  LET mid == n \div 2
  IN << <<0, Min(n, Max(0, mid + overlap \div 2))>>,
        <<Min(n, Max(0, mid - overlap \div 2)), n>> >>

split_in_two_wide(text, overlap) ==
  LET n == Len(text)
      mid == n \div 2
  IN << strip(Slice(text, 0, Max(0, mid + overlap))),
        strip(Slice(text, Max(0, mid - overlap), n)) >>

split_in_two(text, overlap) ==
  LET r == split_ranges(Len(text), overlap)
  IN << strip(Slice(text, r[1][1], r[1][2])),
        strip(Slice(text, r[2][1], r[2][2])) >>

(* ------------------------ values and ensure_schema --------------------- *)
Str(s) == [t |-> "str", s |-> s]          \* a Python str
Int7 == [t |-> "int", s |-> <<"7">>]       \* the JSON number 7; s is str(7)

isinstance_str(v) == v.t = "str"
str(v) == v.s

Sentinel == <<"N","o","t"," ","r","e","p","o","r","t","e","d">>
SentinelLower == <<"n","o","t"," ","r","e","p","o","r","t","e","d">>
SentinelMixed == <<"n","o","t"," ","R","e","p","o","r","t","e","d">>

Range(f) == {f[i] : i \in DOMAIN f}

\* the configured field lists that are explored: no field, and four fields
\* that the service answers with a padded text, a blank text, a number and
\* not at all
SchemaKeyLists == {<<>>, <<"main_idea", "objective", "note", "year">>}

ensure_schema_raw(d, keys) ==
  [k \in Range(keys) |->
     LET v0 == IF k \in DOMAIN d THEN d[k] ELSE Str(<<>>)
     IN IF ~isinstance_str(v0) THEN str(v0) ELSE v0.s]

ensure_schema(d, keys) ==
  [k \in Range(keys) |->
     LET v0 == IF k \in DOMAIN d THEN d[k] ELSE Str(Sentinel)
         v == IF ~isinstance_str(v0) THEN str(v0) ELSE v0.s
     IN IF strip(v) # <<>> THEN strip(v) ELSE Sentinel]

\* Dict[str,str] | None
NoneDict == [some |-> FALSE, d |-> <<>>]
Some(d) == [some |-> TRUE, d |-> d]

\* Python truthiness of "a dict or None": None and {} are both falsy
Truthy(s) == s.some /\ DOMAIN s.d # {}

(* ------------------------------- usage --------------------------------- *)
UsageFields == {"prompt_tokens", "completion_tokens", "total_tokens"}
ZeroUsage == [f \in UsageFields |-> 0]

add_usage(a, b) == [f \in UsageFields |-> a[f] + b[f]]

(* ----------------------------- exceptions ------------------------------ *)
LowerWord(w) ==
  CASE w = "Maximum" -> "maximum"
    [] w = "Context" -> "context"
    [] w = "Connection" -> "connection"
    [] w = "Expecting" -> "expecting"
    [] OTHER -> w

Contains(msg, tok) ==
  \E i \in 0..(Len(msg) - Len(tok)) :
      \A j \in 1..Len(tok) : msg[i + j] = tok[j]

SizeTokens == { <<"context", "length">>, <<"maximum", "context">>,
                <<"too", "many", "tokens">>,
                <<"input", "is", "too", "long">> }

is_size_signal_error(exc) ==
  LET msg == [i \in 1..Len(exc.msg) |-> LowerWord(exc.msg[i])]
  IN \E t \in SizeTokens : Contains(msg, t)

ContextLengthError ==
  [cls |-> "BadRequestError",
   msg |-> <<"Maximum", "Context", "length", "exceeded">>]
ConnectionError ==
  [cls |-> "APIConnectionError", msg |-> <<"Connection", "error">>]
JSONDecodeError ==
  [cls |-> "JSONDecodeError", msg |-> <<"Expecting", "value">>]
AttributeError ==
  [cls |-> "AttributeError",
   msg |-> <<"object", "has", "no", "attribute", "get">>]

NoExc == [cls |-> "", msg |-> <<>>]

\* the value of a function that has returned nothing yet
NoVal == [part |-> NoneDict, st |-> <<>>, u |-> ZeroUsage]

\* what a function call yields: a returned value or a raised exception
Returned(v) == [ok |-> TRUE, v |-> v, e |-> NoExc]
Raised(e) == [ok |-> FALSE, v |-> NoVal, e |-> e]

(* ------------------------ the remote service --------------------------- *)
\* {"main_idea": " a", "objective": " ", "note": 7}
JsonA == [k \in {"main_idea", "objective", "note"} |->
            CASE k = "main_idea" -> Str(<<" ", "a">>)
              [] k = "objective" -> Str(<<" ">>)
              [] OTHER -> Int7]

\* message.content: None, a JSON object text, or text that does not decode
ContentNone == [kind |-> "none", obj |-> <<>>]
ContentJson(j) == [kind |-> "json", obj |-> j]
ContentGarbage == [kind |-> "garbage", obj |-> <<>>]

\* resp.usage: absent, or an object carrying the three counters
UsageAbsent == [present |-> FALSE, u |-> ZeroUsage]
UsageFull ==
  [present |-> TRUE,
   u |-> [f \in UsageFields |->
            CASE f = "prompt_tokens" -> 2
              [] f = "completion_tokens" -> 1
              [] OTHER -> 3]]
UsageNoCompletion ==
  [present |-> TRUE,
   u |-> [f \in UsageFields |-> IF f = "completion_tokens" THEN 0 ELSE 1]]

ServiceRaises(e) ==
  [kind |-> "raise", exc |-> e, content |-> ContentNone, finish |-> "",
   usage |-> UsageAbsent]
ServiceResponds(c, f, u) ==
  [kind |-> "resp", exc |-> NoExc, content |-> c, finish |-> f, usage |-> u]

\* the behaviours of client.chat.completions.create explored at every call
Outcomes ==
  { ServiceRaises(ContextLengthError),
    ServiceRaises(ConnectionError),
    ServiceResponds(ContentJson(JsonA), "stop", UsageFull),
    ServiceResponds(ContentJson(JsonA), "length", UsageFull),
    ServiceResponds(ContentNone, "stop", UsageAbsent),
    ServiceResponds(ContentGarbage, "length", UsageFull) }

\* the single-pass call is also explored with a response whose usage object
\* has a counter equal to 0
SinglePassOutcomes ==
  Outcomes \cup {ServiceResponds(ContentJson(JsonA), "stop", UsageNoCompletion)}

\* the usage the response reports (zero when it carries none)
ReportedUsage(o) == IF o.kind = "resp" THEN o.usage.u ELSE ZeroUsage

\* _usage_dict: `getattr(u, f, 0) or u.get(f, 0) or 0`; a usage object has no
\* .get, so a counter equal to 0 raises AttributeError; an absent usage is {}
usage_dict(uo) ==
  IF ~uo.present THEN Returned(ZeroUsage)
  ELSE IF \E f \in UsageFields : uo.u[f] = 0 THEN Raised(AttributeError)
  ELSE Returned(uo.u)

\* json.loads(resp.choices[0].message.content or "{}")
json_loads(c) ==
  CASE c.kind = "none" -> Returned(<<>>)
    [] c.kind = "json" -> Returned(c.obj)
    [] OTHER -> Raised(JSONDecodeError)

call_chat_json(o) ==
  IF o.kind = "raise" THEN Raised(o.exc)
  ELSE LET u == usage_dict(o.usage)
           j == json_loads(o.content)
       IN IF ~u.ok THEN Raised(u.e)
          ELSE IF ~j.ok THEN Raised(j.e)
          ELSE Returned([j |-> j.v, finish |-> o.finish, u |-> u.v])


(* ------------------- the functions that loop over calls ---------------- *)
\* a fresh activation of try_single_pass, summarize_chunk or reduce_partials;
\* log is the sequence of call_chat_json results it has seen so far
FreshCall(fn) ==
  [fn |-> fn, status |-> "running", tries |-> 0, usage |-> ZeroUsage,
   log |-> <<>>, val |-> NoVal, exc |-> NoExc]

Idle == [FreshCall("none") EXCEPT !.status = "idle"]

\* what the log keeps of one call_chat_json result: the decoded object of a
\* call that returned, the exception of a call that raised
Seen(r) == [ok |-> r.ok, j |-> IF r.ok THEN r.v.j ELSE <<>>,
            e |-> IF r.ok THEN NoExc ELSE r.e]

Retry(c, r) == [c EXCEPT !.log = Append(c.log, Seen(r))]
Return(c, r, v) ==
  [c EXCEPT !.status = "returned", !.log = Append(c.log, Seen(r)), !.val = v]
Raise(c, r) ==
  [c EXCEPT !.status = "raised", !.log = Append(c.log, Seen(r)), !.exc = r.e]

try_single_pass_reraise(c, o, keys) ==
  LET r == call_chat_json(o)
  IN IF r.ok
       THEN IF r.v.finish = "length"
              THEN Return(c, r, [part |-> NoneDict, st |-> <<"finish_length">>,
                                 u |-> r.v.u])
              ELSE Return(c, r, [part |-> Some(ensure_schema(r.v.j, keys)),
                                 st |-> <<"ok">>, u |-> r.v.u])
       ELSE IF is_size_signal_error(r.e)
              THEN Return(c, r, [part |-> NoneDict, st |-> <<"too_big">>,
                                 u |-> ZeroUsage])
              ELSE Raise(c, r)

try_single_pass(c, o, keys) ==
  LET r == call_chat_json(o)
  IN IF r.ok
       THEN IF r.v.finish = "length"
              THEN Return(c, r, [part |-> NoneDict, st |-> <<"finish_length">>,
                                 u |-> r.v.u])
              ELSE Return(c, r, [part |-> Some(ensure_schema(r.v.j, keys)),
                                 st |-> <<"ok">>, u |-> r.v.u])
       ELSE IF is_size_signal_error(r.e)
              THEN Return(c, r, [part |-> NoneDict, st |-> <<"too_big">>,
                                 u |-> ZeroUsage])
              ELSE Return(c, r, [part |-> NoneDict,
                                 st |-> <<"error", r.e.cls>>,
                                 u |-> ZeroUsage])

\* one iteration of the `while True` loop of summarize_chunk
summarize_chunk_retry_size(c, o, keys) ==
  LET tries == c.tries + 1
      r == call_chat_json(o)
      c1 == [c EXCEPT !.tries = tries]
  IN IF r.ok
       THEN LET usage == add_usage(c.usage, r.v.u)
            IN Return([c1 EXCEPT !.usage = usage], r,
                      [part |-> Some(ensure_schema(r.v.j, keys)),
                       st |-> <<>>, u |-> usage])
       ELSE IF tries >= 2 THEN Raise(c1, r)
       ELSE Retry(c1, r)

summarize_chunk(c, o, keys) ==
  LET tries == c.tries + 1
      r == call_chat_json(o)
      c1 == [c EXCEPT !.tries = tries]
  IN IF r.ok
       THEN LET usage == add_usage(c.usage, r.v.u)
            IN Return([c1 EXCEPT !.usage = usage], r,
                      [part |-> Some(ensure_schema(r.v.j, keys)),
                       st |-> <<>>, u |-> usage])
       ELSE IF is_size_signal_error(r.e) THEN Raise(c1, r)
       ELSE IF tries >= 2 THEN Raise(c1, r)
       ELSE Retry(c1, r)

\* the fallback of reduce_partials: for each key the first partial whose
\* stripped value is non-empty and is not "not reported" in lower case
RECURSIVE first_reported(_, _, _)
first_reported(parts, k, i) ==
  IF i > Len(parts) THEN Sentinel
  ELSE LET v == strip(IF k \in DOMAIN parts[i] THEN parts[i][k] ELSE <<>>)
       IN IF v # <<>> /\ lower(v) # SentinelLower THEN v
          ELSE first_reported(parts, k, i + 1)

RECURSIVE last_reported(_, _, _)
last_reported(parts, k, i) ==
  IF i < 1 THEN Sentinel
  ELSE LET v == strip(IF k \in DOMAIN parts[i] THEN parts[i][k] ELSE <<>>)
       IN IF v # <<>> /\ lower(v) # SentinelLower THEN v
          ELSE last_reported(parts, k, i - 1)

local_merge_last(parts, keys) ==
  [k \in Range(keys) |-> last_reported(parts, k, Len(parts))]

local_merge(parts, keys) ==
  [k \in Range(keys) |-> first_reported(parts, k, 1)]

\* one iteration of the `while True` loop of reduce_partials
reduce_partials_raise(c, o, parts, keys) ==
  LET tries == c.tries + 1
      r == call_chat_json(o)
      c1 == [c EXCEPT !.tries = tries]
  IN IF r.ok
       THEN LET usage == add_usage(c.usage, r.v.u)
            IN Return([c1 EXCEPT !.usage = usage], r,
                      [part |-> Some(ensure_schema(r.v.j, keys)),
                       st |-> <<>>, u |-> usage])
       ELSE IF is_size_signal_error(r.e) THEN Raise(c1, r)
       ELSE IF tries >= 2
         THEN Return(c1, r, [part |-> Some(local_merge(parts, keys)),
                             st |-> <<>>, u |-> c.usage])
       ELSE Retry(c1, r)

reduce_partials(c, o, parts, keys) ==
  LET tries == c.tries + 1
      r == call_chat_json(o)
      c1 == [c EXCEPT !.tries = tries]
  IN IF r.ok
       THEN LET usage == add_usage(c.usage, r.v.u)
            IN Return([c1 EXCEPT !.usage = usage], r,
                      [part |-> Some(ensure_schema(r.v.j, keys)),
                       st |-> <<>>, u |-> usage])
       ELSE IF tries >= 2
         THEN Return(c1, r, [part |-> Some(local_merge(parts, keys)),
                             st |-> <<>>, u |-> c.usage])
       ELSE Retry(c1, r)


(* --------------------------- summarize_text ---------------------------- *)
Modes == {"auto", "always", "never"}

Triple(label, s, u) == [label |-> label, s |-> s, u |-> u]
NoResult == Triple("", NoneDict, ZeroUsage)

\* summarize_text once try_single_pass has returned v = (s, status, u):
\* either it returns a triple or it goes on to chunked_map_reduce
after_single_never_falls_back(m, v) ==
  IF Truthy(v.part)
    THEN [done |-> TRUE, result |-> Triple("single", v.part, v.u)]
  ELSE [done |-> FALSE, result |-> NoResult]

after_single(m, v) ==
  IF m = "never"
    THEN [done |-> TRUE,
          result |-> Triple("single", IF Truthy(v.part) THEN v.part
                                      ELSE NoneDict, v.u)]
  ELSE IF Truthy(v.part)
    THEN [done |-> TRUE, result |-> Triple("single", v.part, v.u)]
  ELSE [done |-> FALSE, result |-> NoResult]

\* summarize_text once chunked_map_reduce has returned or raised (r);
\* u1 is the usage of the single-pass attempt of auto mode
after_chunked_drop_u1(m, r, u1) ==
  IF m = "always"
    THEN IF r.ok THEN Triple("chunked", r.v.part, r.v.u)
         ELSE Triple("chunked", NoneDict, ZeroUsage)
  ELSE IF r.ok THEN Triple("chunked", r.v.part, r.v.u)
       ELSE Triple("chunked", NoneDict, u1)

after_chunked_partial_usage(m, r, u1) ==
  IF r.ok
    THEN Triple("chunked", r.v.part,
                IF m = "always" THEN r.v.u ELSE add_usage(u1, r.v.u))
  ELSE Triple("chunked", NoneDict, add_usage(u1, hist.decoded))

after_chunked(m, r, u1) ==
  IF m = "always"
    THEN IF r.ok THEN Triple("chunked", r.v.part, r.v.u)
         ELSE Triple("chunked", NoneDict, ZeroUsage)
  ELSE IF r.ok THEN Triple("chunked", r.v.part, add_usage(u1, r.v.u))
       ELSE Triple("chunked", NoneDict, u1)

(* ------------------------ recursive_binary_map ------------------------- *)
\* one activation of recursive_binary_map: phase "leaf" while summarize_chunk
\* runs, "left"/"right" while the recursive call on L/R runs, "merge" while
\* reduce_partials runs
NewFrame(text) ==
  [text |-> text, phase |-> "leaf", L |-> <<>>, R |-> <<>>,
   left |-> <<>>, uL |-> ZeroUsage, right |-> <<>>, uR |-> ZeroUsage]

Top == stack[Len(stack)]
Pop(st) == SubSeq(st, 1, Len(st) - 1)
SetTop(st, f) == [st EXCEPT ![Len(st)] = f]

NoRet == [pending |-> FALSE, r |-> Raised(NoExc)]
Pending(r) == [pending |-> TRUE, r |-> r]

\* usage of a merged node: add_usage(add_usage(uL, uR), uM)
merged_usage_twice(uL, uR, uM) == add_usage(add_usage(uL, uR), add_usage(uM, uM))

merged_usage(uL, uR, uM) == add_usage(add_usage(uL, uR), uM)

(* ------------------------------ history -------------------------------- *)
\* bookkeeping of the remote calls issued during one summarize_text call:
\* how many of each kind, the usage their responses reported, and the usage
\* of those call_chat_json handed back to its caller
NoHist ==
  [single |-> 0, leaf |-> 0, merge |-> 0, faults |-> 0, splits |-> 0,
   reported |-> ZeroUsage, decoded |-> ZeroUsage, chunkedArgs |-> <<>>]

\* a call that fails with an error that is not a size error
IsFault(o) ==
  LET r == call_chat_json(o) IN ~r.ok /\ ~is_size_signal_error(r.e)

Issued(h, kind, o) ==
  LET r == call_chat_json(o)
      h1 == [h EXCEPT ![kind] = @ + 1,
                      !.faults = IF IsFault(o) THEN @ + 1 ELSE @,
                      !.reported = add_usage(@, ReportedUsage(o))]
  IN IF r.ok THEN [h1 EXCEPT !.decoded = add_usage(@, r.v.u)] ELSE h1

\* the behaviours the service may show at this point of the run
Allowed(o) == IsFault(o) => hist.faults < MaxFaults

(* ------------------------------ actions -------------------------------- *)
StrippedTexts(n) == {t \in StringsUpTo({" ", "a"}, n) : strip(t) = t}

Configs == [schema_keys : SchemaKeyLists, binary_overlap : 0..MaxOverlap]

Init ==
  /\ mode \in Modes
  /\ cfg \in Configs
  /\ cleaned \in StrippedTexts(MaxLen)
  /\ pc = "start"
  /\ sp = NoVal
  /\ stack = <<>>
  /\ cur = Idle
  /\ ret = NoRet
  /\ result = NoResult
  /\ hist = NoHist
  /\ arg = <<>>
  /\ out = <<>>

\* summarize_text up to its first remote call
Begin ==
  /\ pc = "start"
  /\ IF mode = "always"
       THEN /\ pc' = "chunked"
            /\ stack' = <<NewFrame(cleaned)>>
            /\ cur' = FreshCall("chunk")
            /\ hist' = [hist EXCEPT !.chunkedArgs = Append(@, cleaned)]
       ELSE /\ pc' = "single"
            /\ cur' = FreshCall("single")
            /\ UNCHANGED <<stack, hist>>
  /\ UNCHANGED <<mode, cfg, cleaned, sp, ret, result, arg, out>>

TrySinglePass ==
  /\ pc = "single"
  /\ cur.status = "running"
  /\ \E o \in SinglePassOutcomes :
       /\ Allowed(o)
       /\ cur' = try_single_pass(cur, o, cfg.schema_keys)
       /\ hist' = Issued(hist, "single", o)
  /\ UNCHANGED <<mode, cfg, cleaned, pc, sp, stack, ret, result, arg, out>>

AfterSinglePass ==
  /\ pc = "single"
  /\ cur.status \in {"returned", "raised"}
  /\ IF cur.status = "raised"
       THEN /\ pc' = "escaped"
            /\ cur' = Idle
            /\ UNCHANGED <<sp, stack, result, hist>>
       ELSE LET d == after_single(mode, cur.val)
            IN /\ sp' = cur.val
               /\ IF d.done
                    THEN /\ pc' = "done"
                         /\ result' = d.result
                         /\ cur' = Idle
                         /\ UNCHANGED <<stack, hist>>
                    ELSE /\ pc' = "chunked"
                         /\ stack' = <<NewFrame(cleaned)>>
                         /\ cur' = FreshCall("chunk")
                         /\ hist' = [hist EXCEPT
                                       !.chunkedArgs = Append(@, cleaned)]
                         /\ UNCHANGED result
  /\ UNCHANGED <<mode, cfg, cleaned, ret, arg, out>>

SummarizeChunk ==
  /\ pc = "chunked"
  /\ cur.fn = "chunk"
  /\ cur.status = "running"
  /\ \E o \in Outcomes :
       LET c == summarize_chunk(cur, o, cfg.schema_keys)
       IN /\ Allowed(o)
          /\ (c.status = "raised" /\ is_size_signal_error(c.exc))
               => hist.splits < MaxSplits
          /\ cur' = c
          /\ hist' = Issued(hist, "leaf", o)
  /\ UNCHANGED <<mode, cfg, cleaned, pc, sp, stack, ret, result, arg, out>>

\* recursive_binary_map returns v = (part, usage) to its caller, st being the
\* frames below it: the caller is the frame on top of st, which goes on to
\* its second recursive call or to reduce_partials, or it is summarize_text
ReturnToCaller(st, v) ==
  IF st = <<>>
    THEN [stack |-> <<>>, cur |-> Idle, ret |-> Pending(Returned(v))]
  ELSE LET f == st[Len(st)]
       IN IF f.phase = "left"
            THEN [stack |-> Append(SetTop(st,
                               [f EXCEPT !.phase = "right",
                                         !.left = v.part.d,
                                         !.uL = v.u]),
                             NewFrame(f.R)),
                  cur |-> FreshCall("chunk"),
                  ret |-> NoRet]
            ELSE [stack |-> SetTop(st,
                               [f EXCEPT !.phase = "merge",
                                         !.right = v.part.d,
                                         !.uR = v.u]),
                  cur |-> FreshCall("reduce"),
                  ret |-> NoRet]

\* an exception leaves recursive_binary_map: no frame catches it, it unwinds
\* the whole recursion and reaches summarize_text
RaiseToCaller_caught(e) ==
  ReturnToCaller(Pop(stack),
                 [part |-> Some([k \in Range(cfg.schema_keys) |-> Sentinel]),
                  st |-> <<>>, u |-> ZeroUsage])

RaiseToCaller(e) ==
  [stack |-> <<>>, cur |-> Idle, ret |-> Pending(Raised(e))]

\* recursive_binary_map once summarize_chunk has returned or raised
MapAfterChunk ==
  /\ pc = "chunked"
  /\ cur.fn = "chunk"
  /\ cur.status \in {"returned", "raised"}
  /\ LET nxt ==
           IF cur.status = "returned"
             THEN ReturnToCaller(Pop(stack), cur.val)
           ELSE IF is_size_signal_error(cur.exc)
             THEN LET halves == split_in_two(Top.text, cfg.binary_overlap)
                  IN [stack |-> Append(SetTop(stack,
                                   [Top EXCEPT !.phase = "left",
                                               !.L = halves[1],
                                               !.R = halves[2]]),
                                 NewFrame(halves[1])),
                      cur |-> FreshCall("chunk"),
                      ret |-> ret]
           ELSE RaiseToCaller(cur.exc)
     IN /\ stack' = nxt.stack
        /\ cur' = nxt.cur
        /\ ret' = nxt.ret
        /\ hist' = [hist EXCEPT
                      !.splits = IF Len(nxt.stack) > Len(stack)
                                   THEN @ + 1 ELSE @]
  /\ UNCHANGED <<mode, cfg, cleaned, pc, sp, result, arg, out>>

ReducePartials ==
  /\ pc = "chunked"
  /\ cur.fn = "reduce"
  /\ cur.status = "running"
  /\ \E o \in Outcomes :
       /\ Allowed(o)
       /\ cur' = reduce_partials(cur, o, <<Top.left, Top.right>>,
                                 cfg.schema_keys)
       /\ hist' = Issued(hist, "merge", o)
  /\ UNCHANGED <<mode, cfg, cleaned, pc, sp, stack, ret, result, arg, out>>

\* recursive_binary_map once reduce_partials has returned
MapAfterReduce ==
  /\ pc = "chunked"
  /\ cur.fn = "reduce"
  /\ cur.status \in {"returned", "raised"}
  /\ LET nxt ==
           IF cur.status = "returned"
             THEN ReturnToCaller(Pop(stack),
                    [cur.val EXCEPT
                       !.u = merged_usage(Top.uL, Top.uR, cur.val.u)])
           ELSE RaiseToCaller(cur.exc)
     IN /\ stack' = nxt.stack
        /\ cur' = nxt.cur
        /\ ret' = nxt.ret
  /\ UNCHANGED <<mode, cfg, cleaned, pc, sp, result, hist, arg, out>>

\* summarize_text once chunked_map_reduce has returned or raised
Finish ==
  /\ pc = "chunked"
  /\ ret.pending
  /\ stack = <<>>
  /\ result' = after_chunked(mode, ret.r, sp.u)
  /\ pc' = "done"
  /\ UNCHANGED <<mode, cfg, cleaned, sp, stack, cur, ret, hist, arg, out>>

Next ==
  \/ Begin
  \/ TrySinglePass
  \/ AfterSinglePass
  \/ SummarizeChunk
  \/ MapAfterChunk
  \/ ReducePartials
  \/ MapAfterReduce
  \/ Finish

Spec == Init /\ [][Next]_vars


(* ------------------- split_in_two applied on its own ------------------- *)
NoSplit == [halves |-> << <<>>, <<>> >>, ranges |-> << <<0, 0>>, <<0, 0>> >>]

InitSplit ==
  /\ arg \in [text : StrippedTexts(MaxSplitLen), overlap : 0..MaxSplitOverlap]
  /\ out = NoSplit
  /\ pc = "split"
  /\ mode = "auto"
  /\ cfg = [schema_keys |-> <<>>, binary_overlap |-> 0]
  /\ cleaned = <<>>
  /\ sp = NoVal
  /\ stack = <<>>
  /\ cur = Idle
  /\ ret = NoRet
  /\ result = NoResult
  /\ hist = NoHist

SplitInTwo ==
  /\ pc = "split"
  /\ out' = [halves |-> split_in_two(arg.text, arg.overlap),
             ranges |-> split_ranges(Len(arg.text), arg.overlap)]
  /\ pc' = "split_done"
  /\ UNCHANGED <<mode, cfg, cleaned, sp, stack, cur, ret, result, hist, arg>>

NextSplit == SplitInTwo

SpecSplit == InitSplit /\ [][NextSplit]_vars

(* --------- the local merge of reduce_partials applied on its own ------- *)
\* values a normalized partial can hold: stripped and non-empty
NormValues == {Sentinel, SentinelMixed, <<"a">>, <<"b">>}

MergeKeyLists == {<<"main_idea">>, <<"main_idea", "objective">>}

PartLists(keys) ==
  UNION { [1..n -> [Range(keys) -> NormValues]] : n \in 2..MaxParts }

InitMerge ==
  /\ \E keys \in MergeKeyLists :
       arg \in [parts : PartLists(keys), keys : {keys}]
  /\ out = <<>>
  /\ pc = "merge"
  /\ mode = "auto"
  /\ cfg = [schema_keys |-> <<>>, binary_overlap |-> 0]
  /\ cleaned = <<>>
  /\ sp = NoVal
  /\ stack = <<>>
  /\ cur = Idle
  /\ ret = NoRet
  /\ result = NoResult
  /\ hist = NoHist

LocalMerge ==
  /\ pc = "merge"
  /\ out' = local_merge(arg.parts, arg.keys)
  /\ pc' = "merge_done"
  /\ UNCHANGED <<mode, cfg, cleaned, sp, stack, cur, ret, result, hist, arg>>

NextMerge == LocalMerge

SpecMerge == InitMerge /\ [][NextMerge]_vars


(* --------- _normalize_temperature over the calls of one process -------- *)
\* temperatures in tenths: 1 is 0.1, 10 is 1.0; None is an absent value
NoTemp == [some |-> FALSE, v |-> 0]
Temp(v) == [some |-> TRUE, v |-> v]
Temperatures == {NoTemp, Temp(0), Temp(1), Temp(10)}

Marker == <<"g", "p", "t", "-", "5">>

\* model identifiers: the marker, the marker in upper case inside a longer
\* name, another family, and an absent (None or empty) identifier
Models ==
  { Marker,
    <<"G", "P", "T", "-", "5", "m">>,
    <<"g", "p", "t", "-", "4">>,
    <<>> }

normalize_temperature_case_sensitive(model, temperature, warned) ==
  LET t == IF temperature.some THEN temperature.v ELSE 0
  IN IF Contains(model, Marker) /\ t = 0
       THEN [t |-> 1, warned |-> TRUE, printed |-> ~warned]
       ELSE [t |-> t, warned |-> warned, printed |-> FALSE]

\* the value returned, the flag afterwards, and whether the warning printed
normalize_temperature(model, temperature, warned) ==
  LET t == IF temperature.some THEN temperature.v ELSE 0
  IN IF Contains(lower(model), Marker) /\ t = 0
       THEN [t |-> 1, warned |-> TRUE, printed |-> ~warned]
       ELSE [t |-> t, warned |-> warned, printed |-> FALSE]

\* _warned_temp_once at import, and the ghost counts of calls, of calls that
\* were substituted and of warnings printed
TempStart == [warned |-> FALSE, sent |-> 0, calls |-> 0, shimmed |-> 0,
              warnings |-> 0]

InitTemp ==
  /\ arg = [model |-> <<>>, temperature |-> NoTemp]
  /\ out = TempStart
  /\ pc = "temp"
  /\ mode = "auto"
  /\ cfg = [schema_keys |-> <<>>, binary_overlap |-> 0]
  /\ cleaned = <<>>
  /\ sp = NoVal
  /\ stack = <<>>
  /\ cur = Idle
  /\ ret = NoRet
  /\ result = NoResult
  /\ hist = NoHist

\* one call_chat_json up to the request it sends
SendRequest ==
  /\ pc = "temp"
  /\ out.calls < MaxCalls
  /\ \E model \in Models, temperature \in Temperatures :
       LET n == normalize_temperature(model, temperature, out.warned)
       IN /\ arg' = [model |-> model, temperature |-> temperature]
          /\ out' = [warned |-> n.warned,
                     sent |-> n.t,
                     calls |-> out.calls + 1,
                     shimmed |-> out.shimmed + (IF n.t = 1 /\ temperature # Temp(1) THEN 1 ELSE 0),
                     warnings |-> out.warnings + (IF n.printed THEN 1 ELSE 0)]
  /\ UNCHANGED <<mode, cfg, cleaned, pc, sp, stack, cur, ret, result, hist>>

NextTemp == SendRequest

SpecTemp == InitTemp /\ [][NextTemp]_vars


(* ---- recursive_binary_map against a service that rejects by length ---- *)
\* the interpreter's error when the nesting of calls passes its limit
RecursionError ==
  [cls |-> "RecursionError",
   msg |-> <<"maximum", "recursion", "depth", "exceeded">>]

TermOutcomes ==
  { ServiceRaises(ContextLengthError),
    ServiceResponds(ContentJson(JsonA), "stop", UsageFull) }

\* the service rejects for size only spans longer than the overlap
SizeRejects(o) == o.kind = "raise" /\ is_size_signal_error(o.exc)
ServiceMayAnswer(o, text, overlap) == SizeRejects(o) => Len(text) > overlap

\* the bookkeeping of these runs: the calls of each kind and the failures
Counted(h, kind, o) ==
  [h EXCEPT ![kind] = @ + 1,
            !.faults = IF IsFault(o) THEN @ + 1 ELSE @]

InitTerm ==
  /\ mode = "always"
  /\ cfg \in [schema_keys : {<<"main_idea", "objective">>},
              binary_overlap : 0..MaxTermOverlap]
  /\ cleaned \in StrippedTexts(MaxTermLen)
  /\ pc = "start"
  /\ sp = NoVal
  /\ stack = <<>>
  /\ cur = Idle
  /\ ret = NoRet
  /\ result = NoResult
  /\ hist = NoHist
  /\ arg = <<>>
  /\ out = <<>>

\* one remote call of summarize_chunk on the span of the innermost activation
SummarizeChunkSized ==
  /\ pc = "chunked"
  /\ cur.fn = "chunk"
  /\ cur.status = "running"
  /\ \E o \in TermOutcomes :
       /\ Allowed(o)
       /\ ServiceMayAnswer(o, Top.text, cfg.binary_overlap)
       /\ cur' = summarize_chunk(cur, o, cfg.schema_keys)
       /\ hist' = Counted(hist, "leaf", o)
  /\ UNCHANGED <<mode, cfg, cleaned, pc, sp, stack, ret, result, arg, out>>

Recurse_whole(st, text, overlap) ==
  LET halves == split_in_two(text, overlap)
  IN Append(SetTop(st, [st[Len(st)] EXCEPT !.phase = "left",
                                           !.L = text,
                                           !.R = halves[2]]),
            NewFrame(text))

\* the frames once the innermost activation has split its span and entered
\* the recursive call on the left half
Recurse(st, text, overlap) ==
  LET halves == split_in_two(text, overlap)
  IN Append(SetTop(st, [st[Len(st)] EXCEPT !.phase = "left",
                                           !.L = halves[1],
                                           !.R = halves[2]]),
            NewFrame(halves[1]))

\* recursive_binary_map once summarize_chunk has returned or raised, the
\* recursive call failing with RecursionError at the interpreter's limit
MapAfterChunkDeep ==
  /\ pc = "chunked"
  /\ cur.fn = "chunk"
  /\ cur.status \in {"returned", "raised"}
  /\ LET nxt ==
           IF cur.status = "returned"
             THEN ReturnToCaller(Pop(stack), cur.val)
           ELSE IF is_size_signal_error(cur.exc)
             THEN IF Len(stack) < RecursionLimit
                    THEN [stack |-> Recurse(stack, Top.text,
                                            cfg.binary_overlap),
                          cur |-> FreshCall("chunk"),
                          ret |-> ret]
                  ELSE RaiseToCaller(RecursionError)
           ELSE RaiseToCaller(cur.exc)
     IN /\ stack' = nxt.stack
        /\ cur' = nxt.cur
        /\ ret' = nxt.ret
        /\ hist' = [hist EXCEPT
                      !.splits = IF Len(nxt.stack) > Len(stack)
                                   THEN @ + 1 ELSE @]
  /\ UNCHANGED <<mode, cfg, cleaned, pc, sp, result, arg, out>>

\* one remote call of reduce_partials, whose request holds the two partials
\* and no span of the text
ReducePartialsSized ==
  /\ pc = "chunked"
  /\ cur.fn = "reduce"
  /\ cur.status = "running"
  /\ \E o \in TermOutcomes :
       /\ Allowed(o)
       /\ cur' = reduce_partials(cur, o, <<Top.left, Top.right>>,
                                 cfg.schema_keys)
       /\ hist' = Counted(hist, "merge", o)
  /\ UNCHANGED <<mode, cfg, cleaned, pc, sp, stack, ret, result, arg, out>>

NextTerm ==
  \/ Begin
  \/ SummarizeChunkSized
  \/ MapAfterChunkDeep
  \/ ReducePartialsSized
  \/ MapAfterReduce
  \/ Finish

\* the program is sequential and every request is answered or fails, so a
\* step that can be taken is taken
SpecTerm == InitTerm /\ [][NextTerm]_vars /\ WF_vars(NextTerm)


(* ============================= properties ============================== *)
UsageSum(a, b) == [f \in UsageFields |-> a[f] + b[f]]
ChunkedRaised == ret.pending /\ ~ret.r.ok

\* for each key the value of the least index whose value is reported, the
\* sentinel when no index has one
IsReported(v) == strip(v) # <<>> /\ lower(strip(v)) # lower(Sentinel)

FirstReportedOf(parts, keys) ==
  [k \in Range(keys) |->
     LET I == {i \in 1..Len(parts) : IsReported(parts[i][k])}
     IN IF I = {} THEN Sentinel
        ELSE parts[CHOOSE i \in I : \A j \in I : i <= j][k]]

\* C1 as stated: the usage returned by summarize_text equals the sum of the
\* usage reported by every remote call that returned a response.
C1_Original ==
  pc = "done" => result.u = hist.reported

\* C1 amended: when the Chunked Strategy does not raise, the usage returned
\* by summarize_text equals the sum of the usage of every remote call whose
\* response call_chat_json decoded and handed back (single-pass, leaf, merge):
\* none of those is dropped and none is counted twice.
C1_UsageExact ==
  (pc = "done" /\ ~ChunkedRaised) => result.u = hist.decoded

C1_Witness ==
  /\ pc = "done"
  /\ mode = "auto"
  /\ result.label = "chunked"
  /\ result.s.some
  /\ hist.single = 1 /\ hist.leaf >= 3 /\ hist.merge >= 1
  /\ sp.u # ZeroUsage
  /\ hist.decoded # hist.reported
  /\ result.u = hist.decoded

\* C2: in auto mode, whenever the single-pass call completes with status ok,
\* summarize_text returns ("single", that normalized result, the single-pass
\* usage) and no leaf or merge call is issued.
C2_SingleOkReturned ==
  (mode = "auto" /\ sp.st = <<"ok">>) =>
     /\ hist.leaf = 0 /\ hist.merge = 0
     /\ pc = "done"
     /\ result = Triple("single", sp.part, sp.u)

\* C3: in auto mode, whenever the single-pass call does not return ok,
\* summarize_text runs the Chunked Strategy on the same cleaned text and,
\* when it succeeds, returns ("chunked", the chunked result, single-pass usage
\* plus chunked usage), which is the chunked usage after a size error.
C3_AutoFallback ==
  (mode = "auto" /\ sp.st # <<>> /\ sp.st # <<"ok">>) =>
     /\ pc \in {"chunked", "done"}
     /\ hist.chunkedArgs = <<cleaned>>
     /\ (pc = "done" /\ ret.r.ok) =>
          /\ result.label = "chunked"
          /\ result.s = ret.r.v.part
          /\ result.u = UsageSum(sp.u, ret.r.v.u)
          /\ sp.st = <<"too_big">> => result.u = ret.r.v.u

C3_Witness ==
  /\ mode = "auto"
  /\ pc = "done"
  /\ sp.st = <<"finish_length">>
  /\ sp.u # ZeroUsage
  /\ ret.r.ok
  /\ ret.r.v.u # ZeroUsage
  /\ hist.merge >= 1
  /\ result.label = "chunked"

\* C4: in never mode summarize_text issues exactly one remote call, the
\* single-pass call, never invokes the Chunked Strategy, and returns
\* ("single", no result, usage) when the single-pass call fails.
C4_NeverMode ==
  mode = "never" =>
     /\ hist.leaf = 0 /\ hist.merge = 0 /\ hist.chunkedArgs = <<>>
     /\ stack = <<>>
     /\ hist.single <= 1
     /\ pc = "done" =>
          /\ hist.single = 1
          /\ result.label = "single"
          /\ sp.st # <<"ok">> => ~result.s.some

C4_Witness ==
  /\ mode = "never"
  /\ pc = "done"
  /\ sp.st = <<"too_big">>
  /\ hist.single = 1
  /\ ~result.s.some

\* C5: under each mode and every sequence of remote-call outcomes no exception
\* leaves summarize_text, and what it returns is a triple whose label is
\* single or chunked.
C5_NoEscape ==
  /\ pc # "escaped"
  /\ pc = "done" =>
       /\ result.label \in {"single", "chunked"}
       /\ \A f \in UsageFields : result.u[f] >= 0

C5_Witness ==
  /\ pc = "done"
  /\ mode = "never"
  /\ Len(sp.st) = 2 /\ sp.st[1] = "error"
  /\ hist.faults = 1
  /\ ~result.s.some

\* C6: reduce_partials never raises; it issues at most 2 remote calls, returns
\* the normalized response of the first call that succeeds, and returns the
\* local merge of its partials when both attempts fail, whatever the errors.
C6_ReduceNeverFails ==
  cur.fn = "reduce" =>
     LET n == Len(cur.log)
     IN /\ cur.status # "raised"
        /\ n <= 2
        /\ cur.tries = n
        /\ cur.status = "running" => \A i \in 1..n : ~cur.log[i].ok
        /\ cur.status = "returned" =>
             IF cur.log[n].ok
               THEN /\ \A i \in 1..(n - 1) : ~cur.log[i].ok
                    /\ cur.val.part =
                         Some(ensure_schema(cur.log[n].j, cfg.schema_keys))
               ELSE /\ n = 2
                    /\ ~cur.log[1].ok
                    /\ cur.val.part =
                         Some(FirstReportedOf(<<Top.left, Top.right>>,
                                              cfg.schema_keys))

C6_Witness ==
  /\ cur.fn = "reduce"
  /\ cur.status = "returned"
  /\ Len(cur.log) = 2
  /\ ~cur.log[1].ok /\ ~cur.log[2].ok
  /\ cur.log[2].e = ContextLengthError
  /\ cfg.schema_keys # <<>>

C8_ChunkRetry ==
  cur.fn = "chunk" =>
     LET n == Len(cur.log)
         IsSize(i) == ~cur.log[i].ok /\ is_size_signal_error(cur.log[i].e)
     IN /\ n <= 2
        /\ \A i \in 1..n :
             IsSize(i) => /\ i = n
                          /\ cur.status = "raised"
                          /\ cur.exc = cur.log[i].e
        /\ (n = 1 /\ ~cur.log[1].ok /\ ~IsSize(1)) => cur.status = "running"
        /\ n = 2 => /\ ~cur.log[1].ok /\ ~IsSize(1)
                    /\ cur.status # "running"
                    /\ ~cur.log[2].ok => /\ cur.status = "raised"
                                         /\ cur.exc = cur.log[2].e

C8_Witness ==
  /\ cur.fn = "chunk"
  /\ Len(cur.log) = 2
  /\ cur.log[1].e = ConnectionError
  /\ cur.log[2].e = ContextLengthError
  /\ cur.status = "raised"

\* C9 as stated: for every text of length N and overlap O >= 0 with N > O,
\* both halves returned by split_in_two are strictly shorter than the text.
C9_Original ==
  (pc = "split_done" /\ Len(arg.text) > arg.overlap) =>
     /\ Len(out.halves[1]) < Len(arg.text)
     /\ Len(out.halves[2]) < Len(arg.text)

\* C9 amended: for N > O >= 0 the left half is strictly shorter than the
\* text, and the right half is strictly shorter whenever N div 2 > O div 2,
\* which holds for every N >= O + 2.
C9_HalvesShorter ==
  (pc = "split_done" /\ Len(arg.text) > arg.overlap) =>
     /\ Len(out.halves[1]) < Len(arg.text)
     /\ (Len(arg.text) \div 2 > arg.overlap \div 2)
          => Len(out.halves[2]) < Len(arg.text)
     /\ Len(arg.text) >= arg.overlap + 2
          => Len(out.halves[2]) < Len(arg.text)

C9_Witness ==
  /\ pc = "split_done"
  /\ arg.overlap >= 2
  /\ Len(arg.text) >= arg.overlap + 2
  /\ out.halves[1] # <<>> /\ out.halves[2] # <<>>
  /\ Len(out.halves[1]) = Len(arg.text) - 1
  /\ Len(out.halves[2]) < Len(arg.text)

\* C10: for 0 <= O < N the two slice ranges of split_in_two cover every
\* position of [0, N) and share O or O - 1 positions.
C10_Coverage ==
  (pc = "split_done" /\ arg.overlap < Len(arg.text)) =>
     LET n == Len(arg.text)
         left == out.ranges[1]
         right == out.ranges[2]
         InLeft(p) == left[1] <= p /\ p < left[2]
         InRight(p) == right[1] <= p /\ p < right[2]
         shared == Cardinality({p \in 0..(n - 1) : InLeft(p) /\ InRight(p)})
     IN /\ \A p \in 0..(n - 1) : InLeft(p) \/ InRight(p)
        /\ shared \in {arg.overlap, arg.overlap - 1}

C10_Witness ==
  /\ pc = "split_done"
  /\ arg.overlap = 3
  /\ Len(arg.text) = 5
  /\ out.ranges = << <<0, 3>>, <<1, 5>> >>

\* C11: in any sequence of remote calls of one process, a call whose model
\* identifier contains gpt-5 in any letter case and whose configured
\* temperature is 0 or absent is sent with 0.1; every other call is sent with
\* its configured temperature (an absent one being 0); the substitution
\* warning has been printed at most once in total.
HasMarker(model) ==
  \E i \in 0..(Len(model) - 5) :
     /\ model[i + 1] \in {"g", "G"}
     /\ model[i + 2] \in {"p", "P"}
     /\ model[i + 3] \in {"t", "T"}
     /\ model[i + 4] = "-"
     /\ model[i + 5] = "5"

C11_TemperatureShim ==
  (pc = "temp" /\ out.calls > 0) =>
    LET zero == ~arg.temperature.some \/ arg.temperature.v = 0
    IN /\ (HasMarker(arg.model) /\ zero) => out.sent = 1
       /\ ~(HasMarker(arg.model) /\ zero) =>
             out.sent = (IF arg.temperature.some THEN arg.temperature.v ELSE 0)
       /\ out.warnings <= 1

\* a third call is substituted, for an upper-case identifier and an absent
\* temperature, after the single warning was printed by an earlier call
C11_Witness ==
  /\ pc = "temp"
  /\ out.calls = 3
  /\ out.shimmed >= 2
  /\ out.warnings = 1
  /\ arg.model = <<"G", "P", "T", "-", "5", "m">>
  /\ arg.temperature = NoTemp
  /\ out.sent = 1

\* C12: when summarize_chunk raises an error that is not a size error, at
\* any depth of recursive_binary_map, the step that follows hands that same
\* error to summarize_text with every frame unwound and no span split; from
\* then on no leaf call and no merge call is issued, so no ancestor merges
\* and no sibling subtree is started.
LeafFailed ==
  /\ pc = "chunked"
  /\ cur.fn = "chunk"
  /\ cur.status = "raised"
  /\ ~is_size_signal_error(cur.exc)

C12_NonSizeErrorUnwinds ==
  [][ /\ LeafFailed =>
           /\ ret'.pending
           /\ ~ret'.r.ok
           /\ ret'.r.e = cur.exc
           /\ stack' = <<>>
           /\ cur' = Idle
           /\ hist' = hist
      /\ (ChunkedRaised /\ ~is_size_signal_error(ret.r.e)) =>
           /\ ret' = ret
           /\ stack' = <<>>
           /\ cur' = Idle
           /\ hist' = hist ]_vars

\* the left half of a split text failed twice with a connection error: the
\* error reached summarize_text, the right half was never sent and nothing
\* was merged
C12_Witness ==
  /\ ChunkedRaised
  /\ ret.r.e = ConnectionError
  /\ hist.splits = 1
  /\ hist.leaf = 3
  /\ hist.merge = 0
  /\ stack = <<>>
  /\ pc = "done"

\* C13 (as stated): with a service that rejects for size only spans longer
\* than the overlap, every recursive activation works on a span strictly
\* shorter than the span of the activation that called it, which is what
\* bounds the depth of the recursion.
C13_Original ==
  \A i \in 1..(Len(stack) - 1) :
     Len(stack[i + 1].text) < Len(stack[i].text)

\* C13 (amended): every chunked call returns or raises; an activation whose
\* span is at least two characters longer than the overlap calls itself only
\* on strictly shorter spans, and while every split span is that long the
\* depth is at most the text length less the overlap.
LongSplits ==
  \A i \in 1..(Len(stack) - 1) :
     Len(stack[i].text) >= cfg.binary_overlap + 2

C13_Shrinks ==
  /\ \A i \in 1..(Len(stack) - 1) :
        Len(stack[i].text) >= cfg.binary_overlap + 2
          => Len(stack[i + 1].text) < Len(stack[i].text)
  /\ LongSplits => Len(stack) <= Max(1, Len(cleaned) - cfg.binary_overlap)

C13_Terminates == []C13_Shrinks /\ <>(pc = "done")

\* a two-character text was rejected for size, its left half was
\* summarized, and the call on its one-character right half is under way
C13_Witness ==
  /\ pc = "chunked"
  /\ cfg.binary_overlap = 0
  /\ Len(stack) = 2
  /\ Len(stack[1].text) = 2
  /\ stack[1].phase = "right"
  /\ Len(stack[2].text) = 1
  /\ hist.leaf >= 2

\* C14: when chunked_map_reduce raised, summarize_text returns the label
\* chunked with no result; the usage it returns is all zero in always mode
\* and is the usage try_single_pass returned in auto mode, whatever the leaf
\* and merge calls inside the recursion had consumed.
C14_RaiseUsage ==
  (pc = "done" /\ ChunkedRaised) =>
     /\ result.label = "chunked"
     /\ result.s = NoneDict
     /\ mode = "always" => result.u = ZeroUsage
     /\ mode = "auto" => result.u = sp.u

\* auto mode: the single pass stopped for length with usage (2, 1, 3), the
\* text was split, the left leaf succeeded with usage of its own, the right
\* leaf failed twice with a connection error
C14_Witness ==
  /\ pc = "done"
  /\ mode = "auto"
  /\ ChunkedRaised
  /\ ret.r.e = ConnectionError
  /\ sp.u = [prompt_tokens |-> 2, completion_tokens |-> 1, total_tokens |-> 3]
  /\ hist.leaf = 4
  /\ hist.decoded = UsageSum(sp.u, sp.u)
  /\ result.u = sp.u

\* C15: every non-empty result summarize_text returns, in any mode and
\* whichever of the single pass, a leaf, the remote merge or the local merge
\* produced it, has exactly the configured fields as keys; every value is a
\* non-empty string with no whitespace at either end, and is "Not reported"
\* for a field the service left out or answered with a blank text.
WellFormedValue(v) ==
  /\ v # <<>>
  /\ v[1] \notin Whitespace
  /\ v[Len(v)] \notin Whitespace

Answered(k) ==
  /\ k \in DOMAIN JsonA
  /\ \E i \in 1..Len(JsonA[k].s) : JsonA[k].s[i] \notin Whitespace

C15_SchemaShape ==
  (pc = "done" /\ Truthy(result.s)) =>
     /\ DOMAIN result.s.d = Range(cfg.schema_keys)
     /\ \A k \in DOMAIN result.s.d :
           /\ WellFormedValue(result.s.d[k])
           /\ ~Answered(k) => result.s.d[k] = Sentinel

\* always mode: both leaves of a split text decoded, both tries of the merge
\* call failed, and the local merge produced the result
C15_Witness ==
  /\ pc = "done"
  /\ mode = "always"
  /\ result.label = "chunked"
  /\ Truthy(result.s)
  /\ hist.leaf = 3
  /\ hist.merge = 2
  /\ hist.decoded = UsageSum(UsageFull.u, UsageFull.u)
  /\ result.s.d["main_idea"] = <<"a">>
  /\ result.s.d["objective"] = Sentinel
  /\ result.s.d["note"] = <<"7">>
  /\ result.s.d["year"] = Sentinel

====
